---- MODULE Spec2Model ----
(***************************************************************************)
(* A model of pycram's TMC command shim                                    *)
(* (src/pycram/external_interfaces/tmc.py) and of the list constructors    *)
(* of its geometry records (src/pycram/world_dataclasses.py).              *)
(*                                                                         *)
(* The shim is modelled at run time: the state is the module namespace and *)
(* the flag is_init as they stand once the three functions are defined,    *)
(* each thread's position in init_tmc_interface, the log, the messages     *)
(* published and the clock that rospy.sleep advances.  Names are resolved  *)
(* as Python resolves them: a name assigned in a function is local to the  *)
(* call unless the function declares it global (line 7 declares is_init    *)
(* only); a name read in a function is looked up in the call's locals and  *)
(* then in the module namespace, and raises NameError when neither binds   *)
(* it.  What stops the file from loading at all (the doubled comma of      *)
(* line 50, the annotation names of lines 19 and 44 that nothing imports)  *)
(* is not modelled: the model starts with the three functions defined.     *)
(*                                                                         *)
(* Floats are carried as integers: an effort in tenths (0.8 is 8), a       *)
(* colour channel or a coordinate as a small natural number.  The records  *)
(* only store and return them, no arithmetic is done on them.              *)
(***************************************************************************)
EXTENDS Integers, Sequences, FiniteSets

VARIABLES
    module_globals,  \* names bound in tmc.py's module namespace
    is_init,         \* the value bound to the global is_init
    pc,              \* pc[t]: the line of init_tmc_interface thread t is at
    frame,           \* frame[t]: the locals and the bookkeeping of t's call
    started,         \* calls started so far (bounds the run)
    log,             \* rospy.loginfo / rospy.logwarn entries, in order
    published,       \* messages handed to Publisher.publish, in order
    clock,           \* seconds slept in rospy.sleep so far
    init_calls,      \* completed init_tmc_interface calls, in order
    cmd_calls,       \* completed tmc_gripper_control / tmc_talk calls
    color_arg,       \* the list handed to Color's constructors
    color_ret,       \* what each Color constructor returned for color_arg
    box_arg,         \* the two lists handed to from_min_max
    box,             \* the AxisAlignedBoundingBox built from box_arg
    box_ret          \* what each accessor of box returned

shim_vars == <<module_globals, is_init, pc, frame, started, log, published,
               clock, init_calls, cmd_calls>>
color_vars == <<color_arg, color_ret>>
box_vars == <<box_arg, box, box_ret>>
data_vars == <<color_vars, box_vars>>
vars == <<shim_vars, color_vars, box_vars>>

----------------------------------------------------------------------------
(* Bounds of the model.                                                    *)

NThreads == 2      \* threads that may be inside init_tmc_interface at once
MaxCalls == 3      \* calls started in one run
MaxLen == 5        \* longest list handed to a Color constructor
MaxChan == 2       \* colour channel values are 0..MaxChan
MaxCoord == 1      \* coordinates are 0..MaxCoord

Threads == 1..NThreads
\* The one caller of the sequential specification.
MainThread == CHOOSE t \in Threads : \A u \in Threads : t <= u

----------------------------------------------------------------------------
(* tmc.py: the module namespace and name resolution.                       *)

\* Names bound by the module's top-level statements (lines 1, 3, 6, 19, 44).
ModuleNames == {"rospy", "is_init", "init_tmc_interface",
                "tmc_gripper_control", "tmc_talk"}

\* Line 7: the names init_tmc_interface declares global.
GlobalDecls == {"is_init"}

\* Where an assignment or import of `name` inside init_tmc_interface binds it.
BindsGlobally(name) == name \in GlobalDecls

\* A name read in a function body: locals first, then the module namespace.
Bound(name, locals) == name \in locals \/ name \in module_globals

\* The message types lines 11 and 12 resolve.
MessageTypes == {"GripperApplyEffortActionGoal", "Voice"}

\* A call's frame: its local names, and what the call has done so far (the
\* flag it read at line 8, whether it reached the imports, the types it
\* imported, its log entry, the exception that left it).
NoFrame == [locals |-> {}, entry_flag |-> FALSE, attempted |-> FALSE,
            imported |-> {}, logged |-> "none", exc |-> "none"]

InitShim ==
    /\ module_globals = ModuleNames
    /\ is_init = FALSE
    /\ pc = [t \in Threads |-> "idle"]
    /\ frame = [t \in Threads |-> NoFrame]
    /\ started = 0
    /\ log = <<>>
    /\ published = <<>>
    /\ clock = 0
    /\ init_calls = <<>>
    /\ cmd_calls = <<>>

----------------------------------------------------------------------------
(* tmc.py, lines 6-16: init_tmc_interface, one action per line reached.    *)

\* Line 15: the exception types the handler catches.
HandlerTypes == {"ModuleNotFoundError"}

\* A handler that lets the exception through.
Catches_Nothing(exc) == FALSE

Catches(exc) == exc \in HandlerTypes

\* The check of line 8 left out.
ReturnsEarly_Never(flag) == FALSE

\* Line 8: `if is_init: return`.
ReturnsEarly(flag) == flag

\* Line 13 assigning False.
AssignedFlag_False == FALSE

\* Line 13: the value assigned to is_init.
AssignedFlag == TRUE

\* The call of thread t ends (a return, or an exception leaving the function):
\* its frame is dropped and the call is recorded.
EndCall(t, fr, flag_after) ==
    /\ init_calls' = Append(init_calls,
                            [thread |-> t,
                             entry_flag |-> fr.entry_flag,
                             attempted |-> fr.attempted,
                             imported |-> fr.imported,
                             logged |-> fr.logged,
                             exc |-> fr.exc,
                             flag_after |-> flag_after])
    /\ frame' = [frame EXCEPT ![t] = NoFrame]
    /\ pc' = [pc EXCEPT ![t] = "idle"]

\* A caller enters init_tmc_interface.
InitCall(t) ==
    /\ pc[t] = "idle"
    /\ started < MaxCalls
    /\ started' = started + 1
    /\ pc' = [pc EXCEPT ![t] = "l8"]
    /\ frame' = [frame EXCEPT ![t] = NoFrame]
    /\ UNCHANGED <<module_globals, is_init, log, published, clock,
                   init_calls, cmd_calls, data_vars>>

\* Line 8-9: read the flag; return at once when it is set.
InitLine8(t) ==
    /\ pc[t] = "l8"
    /\ LET fr == [frame[t] EXCEPT !.entry_flag = is_init] IN
       IF ReturnsEarly(is_init)
       THEN EndCall(t, fr, is_init)
       ELSE /\ pc' = [pc EXCEPT ![t] = "l11"]
            /\ frame' = [frame EXCEPT ![t] = fr]
            /\ UNCHANGED init_calls
    /\ UNCHANGED <<module_globals, is_init, started, log, published, clock,
                   cmd_calls, data_vars>>

\* Lines 11 and 12: `from <module> import <name>`.  The module is found or
\* ModuleNotFoundError is raised inside the try block; a name imported in the
\* function is bound where BindsGlobally says.
Import(t, name, found, next) ==
    LET fr == [frame[t] EXCEPT !.attempted = TRUE,
                               !.imported = IF found THEN @ \cup {name} ELSE @]
    IN
    IF found
    THEN /\ module_globals' = IF BindsGlobally(name)
                              THEN module_globals \cup {name}
                              ELSE module_globals
         /\ frame' = [frame EXCEPT ![t] =
                        [fr EXCEPT !.locals = IF BindsGlobally(name)
                                              THEN @ ELSE @ \cup {name}]]
         /\ pc' = [pc EXCEPT ![t] = next]
         /\ UNCHANGED init_calls
    ELSE IF Catches("ModuleNotFoundError")
    THEN /\ frame' = [frame EXCEPT ![t] = fr]
         /\ pc' = [pc EXCEPT ![t] = "l16"]
         /\ UNCHANGED <<module_globals, init_calls>>
    ELSE /\ EndCall(t, [fr EXCEPT !.exc = "ModuleNotFoundError"], is_init)
         /\ UNCHANGED module_globals

InitLine11(t) ==
    /\ pc[t] = "l11"
    /\ \E found \in BOOLEAN :
          Import(t, "GripperApplyEffortActionGoal", found, "l12")
    /\ UNCHANGED <<is_init, started, log, published, clock, cmd_calls,
                   data_vars>>

InitLine12(t) ==
    /\ pc[t] = "l12"
    /\ \E found \in BOOLEAN : Import(t, "Voice", found, "l13")
    /\ UNCHANGED <<is_init, started, log, published, clock, cmd_calls,
                   data_vars>>

\* Line 13: `is_init = True`, a write to the module's flag (line 7).
InitLine13(t) ==
    /\ pc[t] = "l13"
    /\ is_init' = IF BindsGlobally("is_init") THEN AssignedFlag ELSE is_init
    /\ pc' = [pc EXCEPT ![t] = "l14"]
    /\ UNCHANGED <<module_globals, frame, started, log, published, clock,
                   init_calls, cmd_calls, data_vars>>

\* Line 14: rospy.loginfo, then the function returns.
InitLine14(t) ==
    /\ pc[t] = "l14"
    /\ log' = Append(log, [level |-> "info", thread |-> t])
    /\ EndCall(t, [frame[t] EXCEPT !.logged = "info"], is_init)
    /\ UNCHANGED <<module_globals, is_init, started, published, clock,
                   cmd_calls, data_vars>>

\* Line 16: rospy.logwarn in the handler, then the function returns.
InitLine16(t) ==
    /\ pc[t] = "l16"
    /\ log' = Append(log, [level |-> "warn", thread |-> t])
    /\ EndCall(t, [frame[t] EXCEPT !.logged = "warn"], is_init)
    /\ UNCHANGED <<module_globals, is_init, started, published, clock,
                   cmd_calls, data_vars>>

----------------------------------------------------------------------------
(* tmc.py, lines 19-57: the two commands.  Each is an operator giving what *)
(* one call does (the exception it raises, the seconds it sleeps, the      *)
(* messages it publishes), computed statement by statement.                *)

OPEN_EFFORT == 8       \* line 31, in tenths
CLOSE_EFFORT == -8     \* line 40, in tenths
GRIPPER_SLEEP == 2     \* lines 29, 38
TALK_SLEEP == 1        \* line 56
ENGLISH == 1           \* line 53

GripperStates == {"OPEN", "CLOSE"}
GripperTopics == {"/hsrb/gripper_controller/grasp/goal", "/gripper_test"}
TalkTopics == {"/talk_request", "/talk_test"}
Sentences == {"hello", ""}

Raised(exc) == [exc |-> exc, slept |-> 0, msgs |-> <<>>]
Returned == [exc |-> "none", slept |-> 0, msgs |-> <<>>]

\* Lines 26-32 and 35-41: build the publisher, sleep, build and publish.
GripperBranch(topic_name, effort, locals, now) ==
    IF ~Bound("rospy", locals) \/ ~Bound("GripperApplyEffortActionGoal", locals)
    THEN Raised("NameError")
    ELSE [exc |-> "none",
          slept |-> GRIPPER_SLEEP,
          msgs |-> << [topic |-> topic_name,
                       type |-> "GripperApplyEffortActionGoal",
                       effort |-> effort,
                       at |-> now + GRIPPER_SLEEP] >>]

\* Lines 25-41: line 25 reads GripperState before either branch is chosen.
tmc_gripper_control(motion, topic_name, now) ==
    LET locals == {"designator", "topic_name"} IN
    IF ~Bound("GripperState", locals)
    THEN Raised("NameError")
    ELSE IF motion = "OPEN"
    THEN GripperBranch(topic_name, OPEN_EFFORT, locals, now)
    ELSE IF motion = "CLOSE"
    THEN GripperBranch(topic_name, CLOSE_EFFORT, locals, now)
    ELSE Returned

\* Lines 50-57, line 50 read as rospy.Publisher(topic_name, Voice,
\* queue_size=10).
tmc_talk(cmd, topic_name, now) ==
    LET locals == {"designator", "topic_name"} IN
    IF ~Bound("rospy", locals) \/ ~Bound("Voice", locals)
    THEN Raised("NameError")
    ELSE [exc |-> "none",
          slept |-> TALK_SLEEP,
          msgs |-> << [topic |-> topic_name,
                       type |-> "Voice",
                       language |-> ENGLISH,
                       sentence |-> cmd,
                       at |-> now + TALK_SLEEP] >>]

\* One call of a command by thread t, from entry to its return or raise.
Command(t, fn, arg, topic_name, r) ==
    /\ pc[t] = "idle"
    /\ started < MaxCalls
    /\ started' = started + 1
    /\ clock' = clock + r.slept
    /\ published' = published \o r.msgs
    /\ cmd_calls' = Append(cmd_calls,
                           [fn |-> fn, arg |-> arg, topic |-> topic_name,
                            entry_clock |-> clock, flag |-> is_init,
                            exc |-> r.exc,
                            msgs |-> r.msgs])
    /\ UNCHANGED <<module_globals, is_init, pc, frame, log, init_calls,
                   data_vars>>

GripperControl(t) ==
    \E motion \in GripperStates, topic_name \in GripperTopics :
        Command(t, "tmc_gripper_control", motion, topic_name,
                tmc_gripper_control(motion, topic_name, clock))

Talk(t) ==
    \E cmd \in Sentences, topic_name \in TalkTopics :
        Command(t, "tmc_talk", cmd, topic_name,
                tmc_talk(cmd, topic_name, clock))

----------------------------------------------------------------------------
(* The shim's specifications: one caller, and several threads in           *)
(* init_tmc_interface.                                                     *)

DataIdle ==
    /\ color_arg = [type |-> "NoneType"]
    /\ color_ret = [op \in {} |-> 0]
    /\ box_arg = <<>>
    /\ box = [type |-> "NoneType"]
    /\ box_ret = [type |-> "NoneType"]

Init == InitShim /\ DataIdle

Next ==
    \/ InitCall(MainThread)
    \/ InitLine8(MainThread)
    \/ InitLine11(MainThread)
    \/ InitLine12(MainThread)
    \/ InitLine13(MainThread)
    \/ InitLine14(MainThread)
    \/ InitLine16(MainThread)
    \/ GripperControl(MainThread)
    \/ Talk(MainThread)

Spec == Init /\ [][Next]_vars

NextThreads ==
    \/ \E t \in Threads : InitCall(t)
    \/ \E t \in Threads : InitLine8(t)
    \/ \E t \in Threads : InitLine11(t)
    \/ \E t \in Threads : InitLine12(t)
    \/ \E t \in Threads : InitLine13(t)
    \/ \E t \in Threads : InitLine14(t)
    \/ \E t \in Threads : InitLine16(t)

SpecThreads == Init /\ [][NextThreads]_vars

----------------------------------------------------------------------------
(* world_dataclasses.py: Python values, subscripting and equality.         *)
(* A value carries its type; a call gives a result, a return value or the  *)
(* exception raised.                                                       *)

None == [type |-> "NoneType"]
List(items) == [type |-> "list", items |-> items]
Tuple(items) == [type |-> "tuple", items |-> items]

Return(v) == [exc |-> "none", msg |-> "", val |-> v]
Raise(exc, msg) == [exc |-> exc, msg |-> msg, val |-> None]

\* obj[i], i counted from 0: an item of a list, IndexError past its end,
\* TypeError on a dataclass instance (it defines no __getitem__).
Subscript(obj, i) ==
    IF obj.type = "list"
    THEN IF i < Len(obj.items)
         THEN Return(obj.items[i + 1])
         ELSE Raise("IndexError", "list index out of range")
    ELSE Raise("TypeError", "object is not subscriptable")

\* The arguments of a call are evaluated left to right; the first exception
\* leaves the call.
AllReturn(rs) == \A k \in 1..Len(rs) : rs[k].exc = "none"
FirstRaise(rs) ==
    rs[CHOOSE k \in 1..Len(rs) :
          rs[k].exc # "none" /\ \A j \in 1..(k - 1) : rs[j].exc = "none"]

----------------------------------------------------------------------------
(* world_dataclasses.py, lines 6-56: Color.                                *)

DEFAULT_ALPHA == 1     \* line 39

Color(R, G, B, A) == [type |-> "Color", R |-> R, G |-> G, B |-> B, A |-> A]

\* Lines 32-39.
from_rgb(rgb) ==
    LET rs == <<Subscript(rgb, 0), Subscript(rgb, 1), Subscript(rgb, 2)>> IN
    IF AllReturn(rs)
    THEN Return(Color(rs[1].val, rs[2].val, rs[3].val, DEFAULT_ALPHA))
    ELSE FirstRaise(rs)

\* Lines 41-48.
from_rgba(rgba) ==
    LET rs == <<Subscript(rgba, 0), Subscript(rgba, 1), Subscript(rgba, 2),
                Subscript(rgba, 3)>> IN
    IF AllReturn(rs)
    THEN Return(Color(rs[1].val, rs[2].val, rs[3].val, rs[4].val))
    ELSE FirstRaise(rs)

\* Lines 27-28 handing a 4-element list to from_rgb.
from_list_rgb_only(color) ==
    IF Len(color.items) = 3 \/ Len(color.items) = 4
    THEN from_rgb(color)
    ELSE Raise("ValueError", "Color list must have 3 or 4 elements")

\* Lines 25-30 accepting any list of at least 3 elements as RGB.
from_list_lenient(color) ==
    IF Len(color.items) = 4
    THEN from_rgba(color)
    ELSE from_rgb(color)

\* Lines 18-30.
from_list(color) ==
    IF Len(color.items) = 3
    THEN from_rgb(color)
    ELSE IF Len(color.items) = 4
    THEN from_rgba(color)
    ELSE Raise("ValueError", "Color list must have 3 or 4 elements")

\* Lines 50-56.
get_rgba(self) == Return(List(<<self.R, self.G, self.B, self.A>>))

----------------------------------------------------------------------------
(* world_dataclasses.py, lines 76-160: Point and AxisAlignedBoundingBox.   *)

Point(x, y, z) == [type |-> "Point", x |-> x, y |-> y, z |-> z]

\* Lines 82-89.
Point_from_list(point) ==
    LET rs == <<Subscript(point, 0), Subscript(point, 1),
                Subscript(point, 2)>> IN
    IF AllReturn(rs)
    THEN Return(Point(rs[1].val, rs[2].val, rs[3].val))
    ELSE FirstRaise(rs)

AxisAlignedBoundingBox(min_x, min_y, min_z, max_x, max_y, max_z) ==
    [type |-> "AxisAlignedBoundingBox",
     min_x |-> min_x, min_y |-> min_y, min_z |-> min_z,
     max_x |-> max_x, max_y |-> max_y, max_z |-> max_z]

\* Line 112 with max_point read where min_point's z belongs.
from_min_max_swapped(min_point, max_point) ==
    LET rs == <<Subscript(min_point, 0), Subscript(min_point, 1),
                Subscript(max_point, 2), Subscript(max_point, 0),
                Subscript(max_point, 1), Subscript(min_point, 2)>> IN
    IF AllReturn(rs)
    THEN Return(AxisAlignedBoundingBox(rs[1].val, rs[2].val, rs[3].val,
                                       rs[4].val, rs[5].val, rs[6].val))
    ELSE FirstRaise(rs)

\* Lines 104-112.
from_min_max(min_point, max_point) ==
    LET rs == <<Subscript(min_point, 0), Subscript(min_point, 1),
                Subscript(min_point, 2), Subscript(max_point, 0),
                Subscript(max_point, 1), Subscript(max_point, 2)>> IN
    IF AllReturn(rs)
    THEN Return(AxisAlignedBoundingBox(rs[1].val, rs[2].val, rs[3].val,
                                       rs[4].val, rs[5].val, rs[6].val))
    ELSE FirstRaise(rs)

\* Lines 122-128.
get_min_point(self) == Point(self.min_x, self.min_y, self.min_z)

\* Lines 130-136.
get_max_point(self) == Point(self.max_x, self.max_y, self.max_z)

\* Lines 114-120.
get_min_max_points(self) == Tuple(<<get_min_point(self), get_max_point(self)>>)

\* Lines 146-152.
get_min(self) == List(<<self.min_x, self.min_y, self.min_z>>)

\* Lines 154-160.
get_max(self) == List(<<self.max_x, self.max_y, self.max_z>>)

\* Lines 138-144.
get_min_max(self) == Tuple(<<get_min(self), get_max(self)>>)

\* Python's ==.  Values of different types are unequal (a dataclass's __eq__
\* answers only for its own class; a list never equals a Point); lists and
\* tuples compare item by item, dataclass instances field by field.
RECURSIVE PyEq(_, _)
PyEq(a, b) ==
    IF a.type # b.type THEN FALSE
    ELSE IF a.type = "list" THEN a.items = b.items
    ELSE IF a.type = "tuple"
    THEN /\ Len(a.items) = Len(b.items)
         /\ \A k \in 1..Len(a.items) : PyEq(a.items[k], b.items[k])
    ELSE IF a.type = "Point"
    THEN <<a.x, a.y, a.z>> = <<b.x, b.y, b.z>>
    ELSE IF a.type = "Color"
    THEN <<a.R, a.G, a.B, a.A>> = <<b.R, b.G, b.B, b.A>>
    ELSE IF a.type = "AxisAlignedBoundingBox"
    THEN <<a.min_x, a.min_y, a.min_z, a.max_x, a.max_y, a.max_z>>
            = <<b.min_x, b.min_y, b.min_z, b.max_x, b.max_y, b.max_z>>
    ELSE TRUE

----------------------------------------------------------------------------
(* The specification of Color: a list is drawn, and each constructor is    *)
(* applied to it once, in any order; get_rgba reads what from_list built.  *)

Chan == 0..MaxChan
ColorLists == UNION {[1..n -> Chan] : n \in 0..MaxLen}

ShimIdle == InitShim

Extend(f, k, v) == [x \in (DOMAIN f) \cup {k} |-> IF x = k THEN v ELSE f[x]]

InitColor ==
    /\ ShimIdle
    /\ \E items \in ColorLists : color_arg = List(items)
    /\ color_ret = [op \in {} |-> None]
    /\ box_arg = <<>>
    /\ box = None
    /\ box_ret = None

ColorCall(op, r) ==
    /\ op \notin DOMAIN color_ret
    /\ color_ret' = Extend(color_ret, op, r)
    /\ UNCHANGED <<color_arg, shim_vars, box_vars>>

ColorFromList == ColorCall("from_list", from_list(color_arg))

ColorFromRgb == ColorCall("from_rgb", from_rgb(color_arg))

ColorFromRgba == ColorCall("from_rgba", from_rgba(color_arg))

ColorGetRgba ==
    /\ "from_list" \in DOMAIN color_ret
    /\ color_ret["from_list"].exc = "none"
    /\ ColorCall("get_rgba", get_rgba(color_ret["from_list"].val))

NextColor ==
    \/ ColorFromList
    \/ ColorFromRgb
    \/ ColorFromRgba
    \/ ColorGetRgba

SpecColor == InitColor /\ [][NextColor]_vars

----------------------------------------------------------------------------
(* The specification of the bounding box: two lists of 2 to 4 coordinates  *)
(* are drawn (from_min_max takes List[float]), from_min_max builds the box *)
(* and the accessors read it.                                              *)

Coord == 0..MaxCoord
PointListLens == {2, 3, 4}
PointArgs ==
    {List(items) : items \in UNION {[1..n -> Coord] : n \in PointListLens}}

InitBox ==
    /\ ShimIdle
    /\ color_arg = None
    /\ color_ret = [op \in {} |-> None]
    /\ \E min_point \in PointArgs, max_point \in PointArgs :
          box_arg = <<min_point, max_point>>
    /\ box = None
    /\ box_ret = None

BoxFromMinMax ==
    /\ box = None
    /\ box' = from_min_max(box_arg[1], box_arg[2])
    /\ UNCHANGED <<box_arg, box_ret, shim_vars, color_vars>>

Accessor(op, v) ==
    /\ box # None
    /\ box.exc = "none"
    /\ box_ret' = [op |-> op, val |-> v]
    /\ UNCHANGED <<box_arg, box, shim_vars, color_vars>>

BoxGetMinPoint == Accessor("get_min_point", get_min_point(box.val))

BoxGetMaxPoint == Accessor("get_max_point", get_max_point(box.val))

BoxGetMinMaxPoints ==
    Accessor("get_min_max_points", get_min_max_points(box.val))

BoxGetMin == Accessor("get_min", get_min(box.val))

BoxGetMax == Accessor("get_max", get_max(box.val))

BoxGetMinMax == Accessor("get_min_max", get_min_max(box.val))

NextBox ==
    \/ BoxFromMinMax
    \/ BoxGetMinPoint
    \/ BoxGetMaxPoint
    \/ BoxGetMinMaxPoints
    \/ BoxGetMin
    \/ BoxGetMax
    \/ BoxGetMinMax

SpecBox == InitBox /\ [][NextBox]_vars

----------------------------------------------------------------------------
(* Properties of the command shim.                                         *)

InitCallIds == 1..Len(init_calls)
CmdCallIds == 1..Len(cmd_calls)

\* A call whose resolution succeeded: both message types were imported.
Resolved(c) == c.imported = MessageTypes

GripperCallIds == {i \in CmdCallIds : cmd_calls[i].fn = "tmc_gripper_control"}
TalkCallIds == {i \in CmdCallIds : cmd_calls[i].fn = "tmc_talk"}

\* C1, as claimed: of two init_tmc_interface calls made one after the other,
\* at most one performs the dependency resolution, whatever the first call's
\* outcome.
C1_AtMostOneResolution ==
    \A i \in InitCallIds : \A j \in InitCallIds :
        j = i + 1 => ~(init_calls[i].attempted /\ init_calls[j].attempted)

\* C1, amended: a call performs the dependency resolution exactly when no
\* earlier call's resolution succeeded; so after a successful call no later
\* call resolves again, and after a call that found the types unavailable
\* the next call resolves again.
C1_ResolutionUntilSuccess ==
    \A j \in InitCallIds :
        init_calls[j].attempted
            <=> (\A i \in 1..(j - 1) : ~Resolved(init_calls[i]))

\* C1's case: a first call whose resolution succeeded and a second call that
\* made no attempt.
C1_Witness ==
    /\ Len(init_calls) >= 2
    /\ Resolved(init_calls[1])
    /\ ~init_calls[2].attempted

C3_EffortBySign ==
    \A i \in GripperCallIds :
        LET c == cmd_calls[i] IN
        c.flag =>
        /\ Len(c.msgs) >= 1
        /\ \A k \in 1..Len(c.msgs) :
              c.msgs[k].effort = IF c.arg = "OPEN" THEN OPEN_EFFORT
                                 ELSE CLOSE_EFFORT

\* C4, as claimed: every tmc_gripper_control call (made once the interface
\* is initialized) publishes exactly once, on the topic given, and not
\* before the settling delay has elapsed.
C4_PublishesOnceAfterDelay ==
    \A i \in GripperCallIds :
        LET c == cmd_calls[i] IN
        c.flag =>
        /\ Len(c.msgs) = 1
        /\ c.msgs[1].topic = c.topic
        /\ c.msgs[1].at >= c.entry_clock + GRIPPER_SLEEP

\* C5, as claimed: every tmc_talk call (made once the interface is
\* initialized) publishes exactly one Voice message on the topic given, with
\* the designator's text and language 1, after the settling delay.
C5_TalkPublishesSentence ==
    \A i \in TalkCallIds :
        LET c == cmd_calls[i] IN
        c.flag =>
        /\ Len(c.msgs) = 1
        /\ c.msgs[1].topic = c.topic
        /\ c.msgs[1].type = "Voice"
        /\ c.msgs[1].sentence = c.arg
        /\ c.msgs[1].language = ENGLISH
        /\ c.msgs[1].at >= c.entry_clock + TALK_SLEEP

\* C9, as claimed: when threads have called init_tmc_interface concurrently
\* with the dependency available and all have returned, exactly one call
\* resolved the types successfully.
C9_OneSuccessfulResolution ==
    (/\ \A t \in Threads : pc[t] = "idle"
     /\ Len(init_calls) >= 2
     /\ \A i \in InitCallIds :
           init_calls[i].attempted => Resolved(init_calls[i]))
        => Cardinality({i \in InitCallIds : Resolved(init_calls[i])}) = 1

\* C10: the flag is monotonic.  No step clears it; a call that reads it set
\* at line 8 returns there, with no import, no log entry and the flag as it
\* was; and no tmc_gripper_control or tmc_talk call changes it.
C10_FlagMonotonic ==
    [][/\ is_init => is_init'
       /\ (is_init /\ pc[MainThread] = "l8")
             => /\ pc'[MainThread] = "idle"
                /\ log' = log
                /\ is_init'
                /\ Len(init_calls') = Len(init_calls) + 1
                /\ ~init_calls'[Len(init_calls')].attempted
                /\ init_calls'[Len(init_calls')].logged = "none"
       /\ (cmd_calls' # cmd_calls) => (is_init' = is_init)
      ]_vars

\* C10's case: with the flag set, a later init call and a command have run.
C10_Witness ==
    /\ is_init
    /\ \E i \in InitCallIds : init_calls[i].entry_flag
    /\ \E i \in CmdCallIds : cmd_calls[i].flag

----------------------------------------------------------------------------
(* Properties of the geometry records.                                     *)

Applied(op) == op \in DOMAIN color_ret

\* C6: Color.from_list agrees with the constructor for the list's length.
\* For a 3-element list it returns a Color equal to from_rgb's, with alpha 1;
\* for a 4-element list a Color equal to from_rgba's, whose R, G, B, A are
\* the list's elements in order.
C6_FromListAgrees ==
    Applied("from_list") =>
        LET L == color_arg.items
            r == color_ret["from_list"]
        IN
        /\ Len(L) = 3 =>
              /\ r.exc = "none"
              /\ r.val.type = "Color"
              /\ r.val.A = 1
              /\ Applied("from_rgb") =>
                    /\ color_ret["from_rgb"].exc = "none"
                    /\ PyEq(r.val, color_ret["from_rgb"].val)
        /\ Len(L) = 4 =>
              /\ r.exc = "none"
              /\ r.val.type = "Color"
              /\ <<r.val.R, r.val.G, r.val.B, r.val.A>> = L
              /\ Applied("from_rgba") =>
                    /\ color_ret["from_rgba"].exc = "none"
                    /\ PyEq(r.val, color_ret["from_rgba"].val)

\* C6's case: from_list and from_rgba both applied to a 4-element list whose
\* alpha is not the default and whose channels differ.
C6_Witness ==
    /\ Applied("from_list")
    /\ Applied("from_rgba")
    /\ color_arg.items = <<0, 1, 2, 0>>

\* C7: for a list of any length other than 3 and 4, Color.from_list raises
\* ValueError with its message and returns no Color.
C7_BadLengthRaises ==
    (Applied("from_list") /\ Len(color_arg.items) \notin {3, 4}) =>
        /\ color_ret["from_list"].exc = "ValueError"
        /\ color_ret["from_list"].msg = "Color list must have 3 or 4 elements"
        /\ color_ret["from_list"].val.type = "NoneType"
        /\ ~Applied("get_rgba")

\* C7's case: from_list applied to a list of 5 elements.
C7_Witness ==
    /\ Applied("from_list")
    /\ Len(color_arg.items) = 5
    /\ color_ret["from_list"].exc = "ValueError"

\* The arguments of from_min_max that are points: lists of three
\* coordinates.
IsPointList(p) == p.type = "list" /\ Len(p.items) = 3

\* C8, as claimed: for every pair of points, from_min_max builds a box and
\* get_min_max_points() == (p_min, p_max).
C8_RoundTripEqual ==
    (IsPointList(box_arg[1]) /\ IsPointList(box_arg[2]) /\ box # None) =>
        /\ box.exc = "none"
        /\ (box_ret # None /\ box_ret.op = "get_min_max_points")
              => PyEq(box_ret.val, Tuple(<<box_arg[1], box_arg[2]>>))

\* C8, amended: for every pair of 3-element coordinate lists, from_min_max
\* builds a box, and get_min_max_points returns a pair of Point instances
\* carrying the lists' coordinates: the first has x, y, z equal to
\* p_min[0], p_min[1], p_min[2], the second to p_max[0], p_max[1], p_max[2].
C8_RoundTripCoordinates ==
    (IsPointList(box_arg[1]) /\ IsPointList(box_arg[2]) /\ box # None) =>
        /\ box.exc = "none"
        /\ (box_ret # None /\ box_ret.op = "get_min_max_points") =>
              LET ps == box_ret.val IN
              /\ ps.type = "tuple"
              /\ Len(ps.items) = 2
              /\ ps.items[1].type = "Point"
              /\ ps.items[2].type = "Point"
              /\ <<ps.items[1].x, ps.items[1].y, ps.items[1].z>>
                    = box_arg[1].items
              /\ <<ps.items[2].x, ps.items[2].y, ps.items[2].z>>
                    = box_arg[2].items

\* C8's case: get_min_max_points read from a box built from two lists that
\* differ on every axis.
C8_Witness ==
    /\ box_arg[1] = List(<<0, 1, 0>>)
    /\ box_arg[2] = List(<<1, 0, 1>>)
    /\ box_ret # None
    /\ box_ret.op = "get_min_max_points"

====
